---- MODULE Spec2Model ----
(***************************************************************************)
(* A model of the trajectory post-processing layer of fish_3d/utility.py:  *)
(* overlap detection, overlap resolution, trajectory normalisation and     *)
(* temporal stitching.                                                     *)
(*                                                                         *)
(* Conventions.                                                            *)
(*  - A numpy array is a TLA+ sequence, so indices are 1-based here where  *)
(*    the code is 0-based; frame numbers, offsets reported in `time` and   *)
(*    start-frame tags keep the code's 0-based values.                     *)
(*  - A fragment (positions, error) is a record [pos, err, src]; `src` is  *)
(*    a history label (which input fragments it was built from) that the   *)
(*    code does not have and that no modelled operation reads.             *)
(*  - An input coordinate is an integer or NaN.  Arithmetic and comparison *)
(*    follow IEEE: NaN propagates through arithmetic and every comparison  *)
(*    with NaN is false.                                                   *)
(***************************************************************************)
EXTENDS Integers, Sequences, FiniteSets, TLC

VARIABLES
    pc,                 \* position of the running procedure
    \* ---- get_trajectory_batches post-processing / overlap detection
    trajectories,       \* the list handed to the function under study
    ctrajs_3d,          \* get_trajectory_batches: the list being refined
    overlap_pairs,      \* result of get_overlap_pairs / get_temporal_overlapped_pairs
    z_min, z_max,
    tau, frame_num,     \* get_trajectory_batches: window length, len(features_mv_mt)
    t_starts,           \* get_trajectory_batches: the start frame of every window
    ntol, rtol,         \* overlap thresholds (num / overlap_num, rtol)
    batch_1, batch_2, unique,
    \* ---- resolve_temporal_overlap
    trajectory_batches, lag, i,
    extended, fragments, t0_extended, t0_fragments, previous_pairs,
    resolved,           \* the pair of lists resolve_temporal_overlap returns
    stitched,           \* convert_traj_format of every returned entry
    \* ---- convert_traj_format
    traj, t0, new_traj,
    \* ---- fill_hole_1d called on its own
    fill_input,         \* the argument binary
    fill_size,          \* the argument size
    fill_output,        \* fill_hole_1d(binary, size)
    fill_again,         \* fill_hole_1d applied to its own output
    \* ---- solve_overlap_lp
    points, errors, diameter,
    kept,               \* the points solve_overlap_lp returns
    outcome             \* which return statement produced them

vars == << pc, trajectories, ctrajs_3d, overlap_pairs, z_min, z_max,
           tau, frame_num, t_starts, ntol, rtol,
           batch_1, batch_2, unique,
           trajectory_batches, lag, i, extended, fragments, t0_extended,
           t0_fragments, previous_pairs, resolved, stitched, traj, t0, new_traj,
           fill_input, fill_size, fill_output, fill_again,
           points, errors, diameter, kept, outcome >>

winVars == << tau, frame_num, t_starts >>
batchVars == << trajectories, ctrajs_3d, z_min, z_max, winVars >>
pairVars == << batch_1, batch_2, unique >>
stitchVars == << trajectory_batches, lag, i, extended, fragments, t0_extended,
                 t0_fragments, previous_pairs, resolved, stitched >>
fillVars == << fill_input, fill_size, fill_output, fill_again >>
convVars == << traj, t0, new_traj, fillVars >>
lpVars == << points, errors, diameter, kept, outcome >>

(***************************************************************************)
(* Bounds of the model.                                                    *)
(***************************************************************************)
MaxN == 3          \* longest list of fragments handed to a list function
MaxBatches == 3    \* most batches handed to resolve_temporal_overlap
MaxLen == 6        \* longest fragment handed to convert_traj_format
MaxPts == 3        \* most points handed to solve_overlap_lp

(***************************************************************************)
(* IEEE not-a-number and the arithmetic the code performs on coordinates.  *)
(***************************************************************************)
NaN == -999999

isnan(c) == c = NaN

Sub(a, b) == IF isnan(a) \/ isnan(b) THEN NaN ELSE a - b
Add(a, b) == IF isnan(a) \/ isnan(b) THEN NaN ELSE a + b
Square(a) == IF isnan(a) THEN NaN ELSE a * a
\* a comparison that answers true when an operand is NaN
less_counts_nan(a, b) == isnan(a) \/ isnan(b) \/ a < b

\* a comparison that leaves out the distance zero
less_excludes_zero(a, b) == ~isnan(a) /\ ~isnan(b) /\ 0 < a /\ a < b

\* a < b as the floating point unit answers it
Less(a, b) == ~isnan(a) /\ ~isnan(b) /\ a < b

\* np.sum(np.square(p - q)) of two 3D points
SqDist(p, q) ==
    Add(Add(Square(Sub(p[1], q[1])), Square(Sub(p[2], q[2]))),
        Square(Sub(p[3], q[3])))

\* np.isclose(a, b) on the integers met here: |a - b| <= 1e-8 + 1e-5 * |b|,
\* which for integers of magnitude below 10^5 is equality; NaN is close to nothing
isclose(a, b) == ~isnan(a) /\ ~isnan(b) /\ a = b

RECURSIVE SetToSortedSeq(_)
SetToSortedSeq(S) ==
    IF S = {} THEN << >>
    ELSE LET m == CHOOSE x \in S : \A y \in S : x <= y
         IN  << m >> \o SetToSortedSeq(S \ {m})

Range(s) == { s[k] : k \in DOMAIN s }

\* a difference that leaves out the first index
setdiff1d_skips_first(n, used) == SetToSortedSeq((2 .. n) \ used)

\* np.setdiff1d(np.arange(n), used): the sorted indices of 1..n not in used
setdiff1d(n, used) == SetToSortedSeq((1 .. n) \ used)

\* np.array(np.nonzero(mat)).T for an (n1, n2) boolean matrix: the index pairs
\* of the true entries in row-major order
AllIndexPairs(n1, n2) ==
    [ k \in 1 .. (n1 * n2) |-> << ((k - 1) \div n2) + 1, ((k - 1) % n2) + 1 >> ]

nonzero(mat, n1, n2) ==
    SelectSeq(AllIndexPairs(n1, n2), LAMBDA p : mat[p[1]][p[2]])

\* the last index of the smallest value
argmin_last(s) ==
    CHOOSE k \in DOMAIN s :
        /\ \A m \in DOMAIN s : s[k] <= s[m]
        /\ \A m \in DOMAIN s : m > k => s[m] > s[k]

\* np.argmin: the first index of the smallest value
argmin(s) ==
    CHOOSE k \in DOMAIN s :
        /\ \A m \in DOMAIN s : s[k] <= s[m]
        /\ \A m \in DOMAIN s : m < k => s[m] > s[k]

(***************************************************************************)
(* get_overlap_pairs                                                       *)
(***************************************************************************)
\* dist_mat[i, j]: the squared distance at every offset
overlap_dist(t1, t2) ==
    [ t \in 1 .. Len(t1.pos) |-> SqDist(t1.pos[t], t2.pos[t]) ]

\* np.sum(dist_mat < rtol_sq, axis=2)[i, j]
overlap_count(t1, t2, tol) ==
    Cardinality({ t \in 1 .. Len(t1.pos) :
                    Less(overlap_dist(t1, t2)[t], tol * tol) })

triu_offset_zero(trajs, num, tol) ==
    LET N == Len(trajs)
        adj_mat == [ a \in 1 .. N |-> [ b \in 1 .. N |->
                       /\ overlap_count(trajs[a], trajs[b], tol) >= num
                       /\ b >= a ] ]
    IN  nonzero(adj_mat, N, N)

get_overlap_pairs(trajs, num, tol) ==
    LET N == Len(trajs)
        adj_mat == [ a \in 1 .. N |-> [ b \in 1 .. N |->
                       /\ overlap_count(trajs[a], trajs[b], tol) >= num
                       /\ b > a ] ]   \* np.triu(adj_mat, k=1)
    IN  nonzero(adj_mat, N, N)

(***************************************************************************)
(* join_pairs (cutility): groups the indices linked by pairs; each group   *)
(* is the sorted tuple of one connected component, groups ordered by their *)
(* smallest index.                                                         *)
(***************************************************************************)
RECURSIVE Component(_, _)
Component(S, pairs) ==
    LET next == S \cup { p[2] : p \in { q \in Range(pairs) : q[1] \in S } }
                  \cup { p[1] : p \in { q \in Range(pairs) : q[2] \in S } }
    IN  IF next = S THEN S ELSE Component(next, pairs)

join_pairs(pairs) ==
    LET nodes == { p[1] : p \in Range(pairs) } \cup { p[2] : p \in Range(pairs) }
        roots == { v \in nodes : \A w \in Component({v}, pairs) : v <= w }
    IN  [ k \in 1 .. Cardinality(roots) |->
            SetToSortedSeq(Component({SetToSortedSeq(roots)[k]}, pairs)) ]

(***************************************************************************)
(* get_valid_ctraj                                                         *)
(***************************************************************************)
\* z[~np.isnan(z)] of one fragment
valid_z(t) == SelectSeq([ k \in 1 .. Len(t.pos) |-> t.pos[k][3] ],
                        LAMBDA z : ~isnan(z))

RECURSIVE valid_ctraj_loop(_, _, _, _, _)
valid_ctraj_loop(trajs, lo, hi, is_valid, valid_trajectories) ==
    IF trajs = << >> THEN valid_trajectories
    ELSE LET t == Head(trajs)
             z == valid_z(t)
             v == /\ is_valid                         \* is_valid *= ...
                  /\ \A k \in DOMAIN z : z[k] < hi
                  /\ \A k \in DOMAIN z : z[k] > lo
                  /\ Len(z) > 1
         IN  valid_ctraj_loop(Tail(trajs), lo, hi, v,
                 IF v THEN Append(valid_trajectories, t) ELSE valid_trajectories)

get_valid_ctraj(trajs, lo, hi) == valid_ctraj_loop(trajs, lo, hi, TRUE, << >>)

(***************************************************************************)
(* remove_spatial_overlap                                                  *)
(***************************************************************************)
not_nan_count(t) ==
    Cardinality({ k \in 1 .. Len(t.pos) : ~isnan(t.pos[k][1]) })

keep_whole_groups(trajs, num, tol) ==
    LET trajs_filtered == SelectSeq(trajs, LAMBDA t : not_nan_count(t) > 1)
    IN  trajs_filtered

remove_spatial_overlap(trajs, num, tol) ==
    LET trajs_filtered == SelectSeq(trajs, LAMBDA t : not_nan_count(t) > 1)
        op == get_overlap_pairs(trajs_filtered, num, tol)
        jop == join_pairs(op)
        not_unique == UNION { Range(jop[g]) : g \in DOMAIN jop }
        uniq == setdiff1d(Len(trajs_filtered), not_unique)
        best(p) == p[argmin([ k \in DOMAIN p |-> trajs_filtered[p[k]].err ])]
    IN  IF Len(trajs_filtered) = 0 THEN << >>
        ELSE IF Len(jop) = 0 THEN trajs_filtered
        ELSE [ k \in DOMAIN uniq |-> trajs_filtered[uniq[k]] ]
             \o [ g \in DOMAIN jop |-> trajs_filtered[best(jop[g])] ]
(***************************************************************************)
(* get_temporal_overlapped_pairs                                           *)
(***************************************************************************)
\* np.nanmin of a sequence: the smallest value that is not NaN, NaN if none
nanmin(s) ==
    LET ok == { s[k] : k \in { m \in DOMAIN s : ~isnan(s[m]) } }
    IN  IF ok = {} THEN NaN ELSE CHOOSE x \in ok : \A y \in ok : x <= y

nanmax(s) ==
    LET ok == { s[k] : k \in { m \in DOMAIN s : ~isnan(s[m]) } }
    IN  IF ok = {} THEN NaN ELSE CHOOSE x \in ok : \A y \in ok : x >= y

\* t[0][-lag:] and t[0][:lag]: a slice holds at most the rows the fragment has
tail_rows(t, lg) ==
    LET n == Len(t.pos)
    IN  IF n <= lg THEN t.pos ELSE SubSeq(t.pos, n - lg + 1, n)

head_rows(t, lg) ==
    IF Len(t.pos) <= lg THEN t.pos ELSE SubSeq(t.pos, 1, lg)

\* the number of rows numpy broadcasting gives a (a, 3) array combined with a
\* (b, 3) array, -1 when the shapes cannot be broadcast together (ValueError)
broadcast_rows(a, b) ==
    IF a = b THEN a ELSE IF a = 1 THEN b ELSE IF b = 1 THEN a ELSE -1

\* row k of an array broadcast along its first axis
broadcast_row(s, k) == IF Len(s) = 1 THEN s[1] ELSE s[k]

\* lines 998-1001 raise ValueError: the two slices cannot be subtracted, or the
\* distances cannot be stored in the (lag,) row dist_mat[i, j, :]
temporal_raises(t1, t2, lg) ==
    LET r == broadcast_rows(Len(tail_rows(t1, lg)), Len(head_rows(t2, lg)))
    IN  r = -1 \/ broadcast_rows(r, lg) # lg

\* dist_mat[i, j, :]: t1[0][-lag:] against t2[0][:lag]
temporal_dist(t1, t2, lg) ==
    LET a == tail_rows(t1, lg)
        b == head_rows(t2, lg)
        r == broadcast_rows(Len(a), Len(b))
        dist_sq == [ k \in 1 .. r |-> SqDist(broadcast_row(a, k), broadcast_row(b, k)) ]
    IN  [ k \in 1 .. lg |-> broadcast_row(dist_sq, k) ]

temporal_conn(t1, t2, lg, tol) ==
    Cardinality({ k \in 1 .. lg : Less(temporal_dist(t1, t2, lg)[k], tol * tol) })

get_temporal_overlapped_pairs(b1, b2, lg, num, tol, uniq) ==
    LET N1 == Len(b1)
        N2 == Len(b2)
        conn_mat == [ a \in 1 .. N1 |-> [ b \in 1 .. N2 |->
                        temporal_conn(b1[a], b2[b], lg, tol) ] ]
        min_dist_mat == [ a \in 1 .. N1 |-> [ b \in 1 .. N2 |->
                            nanmin(temporal_dist(b1[a], b2[b], lg)) ] ]
        score == IF uniq = "dist" THEN min_dist_mat ELSE conn_mat
        best(s) == IF uniq = "dist" THEN nanmin(s) ELSE nanmax(s)
        \* best over axis 0 (per column) and over axis 1 (per row)
        col(b) == [ a \in 1 .. N1 |-> score[a][b] ]
        mask_1 == [ a \in 1 .. N1 |-> [ b \in 1 .. N2 |->
                      isclose(score[a][b], best(col(b))) ] ]
        mask_2 == [ a \in 1 .. N1 |-> [ b \in 1 .. N2 |->
                      isclose(score[a][b], best(score[a])) ] ]
        adj_mat == [ a \in 1 .. N1 |-> [ b \in 1 .. N2 |->
                       /\ conn_mat[a][b] >= num
                       /\ (uniq # "none" /\ N1 > 0 /\ N2 > 0)
                             => (mask_1[a][b] /\ mask_2[a][b]) ] ]
    IN  nonzero(adj_mat, N1, N2)

(***************************************************************************)
(* Inputs of the list functions: fragments of three offsets.               *)
(***************************************************************************)
PtA == << 0, 0, 0 >>
PtA1 == << 1, 0, 0 >>
PtA2 == << 2, 0, 0 >>
PtB == << 9, 0, 5 >>
PtNaN == << NaN, NaN, NaN >>

Frag(p, e) == [ pos |-> p, err |-> e, src |-> << >> ]

ListFragPool ==
    { Frag(<< PtA, PtA, PtA >>, 2),
      Frag(<< PtA1, PtA1, PtNaN >>, 1),
      Frag(<< PtA2, PtA2, PtA2 >>, 2),
      Frag(<< PtB, PtB, PtB >>, 3),
      Frag(<< PtNaN, PtA, PtNaN >>, 1) }

ListsUpTo(S, n) == UNION { [ 1 .. m -> S ] : m \in 0 .. n }

NTolSet == 1 .. 3
RTolSet == { 1, 2 }
ZRanges == { << -1, 4 >>, << -1, 9 >> }

\* the variables of the functions a specification does not run
WinIdle == tau = 0 /\ frame_num = 0 /\ t_starts = << >>
BatchIdle ==
    /\ trajectories = << >> /\ ctrajs_3d = << >> /\ z_min = 0 /\ z_max = 0
    /\ WinIdle
PairIdle == batch_1 = << >> /\ batch_2 = << >> /\ unique = "none"
StitchIdle ==
    /\ trajectory_batches = << >> /\ i = 0
    /\ extended = << >> /\ fragments = << >>
    /\ t0_extended = << >> /\ t0_fragments = << >> /\ previous_pairs = << >>
    /\ resolved = << >> /\ stitched = << >>
FillIdle ==
    /\ fill_input = << >> /\ fill_size = 0
    /\ fill_output = << >> /\ fill_again = << >>
ConvIdle == traj = << >> /\ t0 = 0 /\ new_traj = << >> /\ FillIdle
LpIdle ==
    /\ points = << >> /\ errors = << >> /\ diameter = 0
    /\ kept = << >> /\ outcome = "none"

(***************************************************************************)
(* The per-batch post-processing of get_trajectory_batches, and            *)
(* get_overlap_pairs / remove_spatial_overlap called on a list directly.   *)
(***************************************************************************)
InitBatch ==
    /\ pc = "start"
    /\ trajectories \in ListsUpTo(ListFragPool, MaxN)
    /\ ctrajs_3d = trajectories
    /\ \E zr \in ZRanges : z_min = zr[1] /\ z_max = zr[2]
    /\ ntol \in NTolSet
    /\ rtol \in RTolSet
    /\ overlap_pairs = << >>
    /\ lag = 0
    /\ WinIdle /\ PairIdle /\ StitchIdle /\ ConvIdle /\ LpIdle

\* get_overlap_pairs(trajectories, ntol, rtol); trajs[0] of an empty list raises
GetOverlapPairs ==
    /\ pc = "start"
    /\ IF Len(trajectories) = 0
       THEN pc' = "raised" /\ UNCHANGED overlap_pairs
       ELSE /\ overlap_pairs' = get_overlap_pairs(trajectories, ntol, rtol)
            /\ pc' = "pairs"
    /\ UNCHANGED << batchVars, ntol, rtol, pairVars, stitchVars, convVars, lpVars >>

\* line 1212: ctrajs_3d = get_valid_ctraj(ctrajs_3d, z_min, z_max)
GetValidCtraj ==
    /\ pc = "start"
    /\ ctrajs_3d' = get_valid_ctraj(ctrajs_3d, z_min, z_max)
    /\ pc' = "valid"
    /\ UNCHANGED << trajectories, z_min, z_max, winVars, overlap_pairs, ntol, rtol,
                    pairVars, stitchVars, convVars, lpVars >>

\* line 1213: ctrajs_3d = remove_spatial_overlap(ctrajs_3d, overlap_num, overlap_rtol)
\* (from "start": remove_spatial_overlap called on an unfiltered list)
RemoveSpatialOverlap ==
    /\ pc \in { "start", "valid" }
    /\ ctrajs_3d' = remove_spatial_overlap(ctrajs_3d, ntol, rtol)
    /\ pc' = IF pc = "valid" THEN "batch" ELSE "resolved"
    /\ UNCHANGED << trajectories, z_min, z_max, winVars, overlap_pairs, ntol, rtol,
                    pairVars, stitchVars, convVars, lpVars >>

NextBatch == GetOverlapPairs \/ GetValidCtraj \/ RemoveSpatialOverlap

SpecBatch == InitBatch /\ [][NextBatch]_vars
(***************************************************************************)
(* get_trajectory_batches: the windows the frames are cut into.  Every     *)
(* window is then triangulated and post-processed as in SpecBatch.         *)
(***************************************************************************)
MaxTau == 7        \* longest window handed to get_trajectory_batches
MaxFrames == 16    \* most frames handed to get_trajectory_batches

\* windows that follow one another without overlap
starts_stride_tau(length, frames) ==
    LET all == [ t \in 1 .. (frames \div length) |-> (t - 1) * length ]
    IN  SelectSeq(all, LAMBDA t : t + length <= frames)

\* lines 1176-1179: shift = tau // 2 and the two list comprehensions of t_starts
window_starts(length, frames) ==
    LET shift == length \div 2
        all == [ t \in 1 .. (frames \div shift) |-> (t - 1) * shift ]
    IN  SelectSeq(all, LAMBDA t : t + length <= frames)

InitWindows ==
    /\ pc = "start"
    /\ tau \in 2 .. MaxTau
    /\ frame_num \in 0 .. MaxFrames
    /\ t_starts = << >>
    /\ trajectories = << >> /\ ctrajs_3d = << >> /\ z_min = 0 /\ z_max = 0
    /\ overlap_pairs = << >> /\ ntol = 0 /\ rtol = 0 /\ lag = 0
    /\ PairIdle /\ StitchIdle /\ ConvIdle /\ LpIdle

WindowStarts ==
    /\ pc = "start"
    /\ t_starts' = window_starts(tau, frame_num)
    /\ pc' = "windows"
    /\ UNCHANGED << trajectories, ctrajs_3d, z_min, z_max, tau, frame_num,
                    overlap_pairs, ntol, rtol,
                    pairVars, stitchVars, convVars, lpVars >>

NextWindows == WindowStarts

SpecWindows == InitWindows /\ [][NextWindows]_vars

(***************************************************************************)
(* get_temporal_overlapped_pairs called on two batches.                    *)
(***************************************************************************)
MaxPair == 2       \* longest batch handed to get_temporal_overlapped_pairs

PairFragPool ==
    { Frag(<< PtA, PtA, PtA >>, 2),
      Frag(<< PtA1, PtA1, PtNaN >>, 1),
      Frag(<< PtA2, PtA, PtA1 >>, 2),
      Frag(<< PtB, PtB, PtB >>, 3) }

\* fragments of a longer and of a shorter window
PairFragLong == Frag(<< PtA, PtA, PtA, PtA >>, 1)
PairFragShort == Frag(<< PtA, PtA >>, 1)

\* a batch holds fragments of one window length
PairBatches ==
    ListsUpTo(PairFragPool, MaxPair)
        \cup ListsUpTo({ PairFragLong }, MaxPair)
        \cup ListsUpTo({ PairFragShort }, MaxPair)

InitPairs ==
    /\ pc = "start"
    /\ batch_1 \in PairBatches
    /\ batch_2 \in PairBatches
    /\ lag \in { 2, 3 }
    /\ ntol \in NTolSet
    /\ rtol \in RTolSet
    /\ unique \in { "conn", "dist", "none" }
    /\ overlap_pairs = << >>
    /\ BatchIdle /\ StitchIdle /\ ConvIdle /\ LpIdle

GetTemporalOverlappedPairs ==
    /\ pc = "start"
    /\ IF \E a \in DOMAIN batch_1, b \in DOMAIN batch_2 :
              temporal_raises(batch_1[a], batch_2[b], lag)
       THEN pc' = "raised" /\ UNCHANGED overlap_pairs
       ELSE /\ overlap_pairs' =
                get_temporal_overlapped_pairs(batch_1, batch_2, lag, ntol, rtol, unique)
            /\ pc' = "tpairs"
    /\ UNCHANGED << batchVars, ntol, rtol, pairVars, stitchVars, convVars, lpVars >>

NextPairs == GetTemporalOverlappedPairs

SpecPairs == InitPairs /\ [][NextPairs]_vars

(***************************************************************************)
(* get_overlap_pairs and get_temporal_overlapped_pairs on batches that     *)
(* hold fragments with missing positions: batch_1 is compared with itself  *)
(* by get_overlap_pairs and with batch_2 by get_temporal_overlapped_pairs. *)
(***************************************************************************)
HoledFragPool ==
    { Frag(<< PtA, PtA, PtA >>, 2),
      Frag(<< PtA2, PtA, PtA1 >>, 2),
      Frag(<< PtNaN, PtA, PtNaN >>, 1),
      Frag(<< PtNaN, PtNaN, PtNaN >>, 1) }

InitOverlap ==
    /\ pc = "start"
    /\ batch_1 \in ListsUpTo(HoledFragPool, MaxPair)
    /\ batch_2 \in ListsUpTo(HoledFragPool, MaxPair)
    /\ trajectories = batch_1
    /\ ctrajs_3d = << >> /\ z_min = 0 /\ z_max = 0 /\ WinIdle
    /\ lag \in { 2, 3 }
    /\ ntol \in NTolSet
    /\ rtol \in RTolSet
    /\ unique \in { "conn", "dist", "none" }
    /\ overlap_pairs = << >>
    /\ StitchIdle /\ ConvIdle /\ LpIdle

NextOverlap == GetOverlapPairs \/ GetTemporalOverlappedPairs

SpecOverlap == InitOverlap /\ [][NextOverlap]_vars

(***************************************************************************)
(* Properties of the list functions.                                       *)
(***************************************************************************)
\* a position is missing when any of its coordinates is NaN
Missing(p) == \E d \in 1 .. 3 : p[d] = NaN

\* the Euclidean distance of two present positions is below r  (r >= 0)
DistanceBelow(p, q, r) ==
    /\ ~Missing(p) /\ ~Missing(q)
    /\ (p[1] - q[1]) * (p[1] - q[1]) + (p[2] - q[2]) * (p[2] - q[2])
         + (p[3] - q[3]) * (p[3] - q[3]) < r * r

\* the number of offsets at which two fragments are closer than r
CloseOffsets(f, g, r) ==
    Cardinality({ t \in 1 .. Len(f.pos) : DistanceBelow(f.pos[t], g.pos[t], r) })

OwnValid(t, lo, hi) ==
    LET zs == { k \in 1 .. Len(t.pos) : t.pos[k][3] # NaN }
    IN  /\ \A k \in zs : lo <= t.pos[k][3] /\ t.pos[k][3] <= hi
        /\ Cardinality(zs) > 1

\* C8: get_valid_ctraj keeps a fragment iff that fragment alone is valid, whatever
\* the other fragments of the list and their order.
C8_KeepsIffOwnValid ==
    pc = "valid" =>
        ctrajs_3d = SelectSeq(trajectories, LAMBDA t : OwnValid(t, z_min, z_max))

\* C6: with a uniqueness policy, no fragment of batch_1 and no fragment of batch_2
\* is in more than one returned pair.
C6_AtMostOneMatch ==
    (pc = "tpairs" /\ unique \in { "conn", "dist" }) =>
        \A k, m \in DOMAIN overlap_pairs :
            k # m => /\ overlap_pairs[k][1] # overlap_pairs[m][1]
                     /\ overlap_pairs[k][2] # overlap_pairs[m][2]
(***************************************************************************)
(* convert_traj_format, fill_hole_1d, interpolate_nan                      *)
(*                                                                         *)
(* The coordinates convert_traj_format works on are floats that linear     *)
(* interpolation moves off the integer grid: they are modelled as exact    *)
(* rationals << numerator, denominator >> in lowest terms, denominator > 0,*)
(* and NaN as << 0, 0 >>.                                                  *)
(***************************************************************************)
FillSize == 3

RECURSIVE GCD(_, _)
GCD(a, b) == IF b = 0 THEN a ELSE GCD(b, a % b)

Abs(a) == IF a < 0 THEN -a ELSE a

FNaN == << 0, 0 >>

fisnan(x) == x[2] = 0

\* the rational n / d (d > 0) in lowest terms
Rat(n, d) ==
    LET g == GCD(Abs(n), d)
    IN  IF n < 0 THEN << -(Abs(n) \div g), d \div g >> ELSE << n \div g, d \div g >>

ToFloat(c) == IF isnan(c) THEN FNaN ELSE << c, 1 >>

ToFloatRows(pos) ==
    [ k \in DOMAIN pos |-> [ d \in 1 .. 3 |-> ToFloat(pos[k][d]) ] ]

\* the inner loop of fill_hole_1d from `shift` on, for a probe of length s
RECURSIVE fill_shift(_, _, _)
fill_shift(filled, s, shift) ==
    IF shift > Len(filled) - s THEN filled
    ELSE LET hit == /\ filled[shift + 1] = 1
                    /\ filled[shift + s] = 1
                    /\ \A k \in (shift + 2) .. (shift + s - 1) : filled[k] = 0
             nxt == IF hit
                    THEN [ k \in DOMAIN filled |->
                             IF shift + 1 <= k /\ k <= shift + s THEN 1 ELSE filled[k] ]
                    ELSE filled
         IN  fill_shift(nxt, s, shift + 1)

\* the outer loop: s = size + 2, size + 1, ..., 3
RECURSIVE fill_probes(_, _)
fill_probes(filled, s) ==
    IF s <= 2 THEN filled ELSE fill_probes(fill_shift(filled, s, 0), s - 1)

fill_below_size(binary, size) ==
    LET filled == [ k \in DOMAIN binary |-> IF binary[k] THEN 1 ELSE 0 ]
        out == fill_probes(filled, size + 1)
    IN  [ k \in DOMAIN binary |-> out[k] # 0 ]

\* a fill that stops after the leftmost hole it can fill
fill_first_hole(binary, size) ==
    LET n == Len(binary)
        hole(a, b) == /\ 1 < a /\ a <= b /\ b < n /\ b - a + 1 <= size
                      /\ binary[a - 1] /\ binary[b + 1]
                      /\ \A k \in a .. b : ~binary[k]
        starts == { a \in 1 .. n : \E b \in a .. n : hole(a, b) }
        first == CHOOSE a \in starts : \A c \in starts : a <= c
    IN  IF starts = {} THEN binary
        ELSE [ k \in 1 .. n |->
                 binary[k] \/ \E b \in first .. n : hole(first, b) /\ k \in first .. b ]

fill_hole_1d(binary, size) ==
    LET filled == [ k \in DOMAIN binary |-> IF binary[k] THEN 1 ELSE 0 ]
        out == fill_probes(filled, size + 2)
    IN  [ k \in DOMAIN binary |-> out[k] # 0 ]

\* an interpolation that holds the value of the sample point before x
interp_previous(a, b, lo, x, hi) == a

\* np.interp at x between the sample points lo < x < hi with values a, b
interp(a, b, lo, x, hi) ==
    IF fisnan(a) \/ fisnan(b) THEN FNaN
    ELSE Rat(a[1] * b[2] * (hi - x) + b[1] * a[2] * (x - lo),
             a[2] * b[2] * (hi - lo))

\* an interpolation that recomputes every inner row from the first and last rows
interpolate_from_ends(coordinates) ==
    LET n == Len(coordinates)
    IN  [ raised |-> FALSE,
          value |-> [ k \in 1 .. n |->
              IF 1 < k /\ k < n
              THEN [ d \in 1 .. 3 |->
                       interp(coordinates[1][d], coordinates[n][d], 1, k, n) ]
              ELSE coordinates[k] ] ]

\* [raised |-> TRUE] when np.interp rejects an empty array of sample points
interpolate_nan(coordinates) ==
    LET n == Len(coordinates)
        is_nan == [ k \in 1 .. n |-> fisnan(coordinates[k][1]) ]
        valid == { k \in 1 .. n : ~is_nan[k] }
        \* a loop that never breaks leaves its variable at the last value
        head_idx == IF valid = {} THEN n
                    ELSE CHOOSE k \in valid : \A m \in valid : k <= m
        tail_idx == IF valid = {} THEN 1
                    ELSE CHOOSE k \in valid : \A m \in valid : k >= m
        valid_range == head_idx .. tail_idx
        nan_indices == { k \in valid_range : is_nan[k] }
        not_nan_indices == { k \in valid_range : ~is_nan[k] }
        lo(k) == CHOOSE a \in not_nan_indices :
                    a < k /\ \A m \in not_nan_indices : m < k => m <= a
        hi(k) == CHOOSE a \in not_nan_indices :
                    a > k /\ \A m \in not_nan_indices : m > k => m >= a
    IN  IF not_nan_indices = {}
        THEN [ raised |-> TRUE, value |-> << >> ]
        ELSE [ raised |-> FALSE,
               value |-> [ k \in 1 .. n |->
                   IF k \in nan_indices
                   THEN [ d \in 1 .. 3 |->
                            interp(coordinates[lo(k)][d], coordinates[hi(k)][d],
                                   lo(k), k, hi(k)) ]
                   ELSE coordinates[k] ] ]

\* a loop that appends every row
all_rows(coordinates) == SetToSortedSeq(DOMAIN coordinates)

\* lines 678-684: the rows with not np.isnan(coord).any(), offset t at index t + 1
emitted_rows(coordinates) ==
    SetToSortedSeq({ k \in DOMAIN coordinates :
                       \A d \in 1 .. 3 : ~fisnan(coordinates[k][d]) })

\* the one (time, positions) pair of the returned list, or raised
convert_traj_format(tr, start) ==
    LET coordinates == ToFloatRows(tr.pos)
        is_valid_array == fill_hole_1d(
            [ k \in DOMAIN coordinates |-> ~fisnan(coordinates[k][1]) ], FillSize)
        interpolated == interpolate_nan(coordinates)
        \* coordinates[~is_valid_array] = np.nan
        masked == [ k \in DOMAIN coordinates |->
                      IF is_valid_array[k] THEN interpolated.value[k]
                      ELSE [ d \in 1 .. 3 |-> FNaN ] ]
        keep == emitted_rows(masked)
    IN  IF interpolated.raised
        THEN [ raised |-> TRUE, time |-> << >>, pos |-> << >> ]
        ELSE [ raised |-> FALSE,
               time |-> [ m \in DOMAIN keep |-> start + (keep[m] - 1) ],
               pos |-> [ m \in DOMAIN keep |-> masked[keep[m]] ] ]

PtP0 == << 0, 0, 0 >>
PtP1 == << 6, 12, -6 >>
PtPartial == << 3, NaN, 3 >>

ConvPoints == { PtNaN, PtP0, PtP1, PtPartial }

\* fragments of ten offsets, at PtP0 up to offset 3 and at PtP1 from offset 4 on,
\* with any of the offsets 0, 1, 4, 5, 8, 9 missing
TenOffsetPositions ==
    { [ k \in 1 .. 10 |-> IF (k - 1) \in gone THEN PtNaN
                          ELSE IF k <= 4 THEN PtP0 ELSE PtP1 ] :
        gone \in SUBSET { 0, 1, 4, 5, 8, 9 } }

InitConv ==
    /\ pc = "start"
    /\ \E p \in UNION { [ 1 .. m -> ConvPoints ] : m \in 1 .. MaxLen }
                  \cup TenOffsetPositions :
           traj = Frag(p, 1)
    /\ t0 \in { 0, 7 }
    /\ new_traj = << >>
    /\ overlap_pairs = << >> /\ ntol = 0 /\ rtol = 0 /\ lag = 0
    /\ BatchIdle /\ PairIdle /\ StitchIdle /\ LpIdle /\ FillIdle

ConvertTrajFormat ==
    /\ pc = "start"
    /\ LET r == convert_traj_format(traj, t0)
       IN  IF r.raised
           THEN pc' = "raised" /\ UNCHANGED new_traj
           ELSE pc' = "converted" /\ new_traj' = << r.time, r.pos >>
    /\ UNCHANGED << batchVars, overlap_pairs, ntol, rtol, pairVars, stitchVars,
                    traj, t0, fillVars, lpVars >>

NextConv == ConvertTrajFormat

SpecConv == InitConv /\ [][NextConv]_vars

(***************************************************************************)
(* interpolate_nan called on the float array of a fragment: traj[0] is the *)
(* argument and new_traj the returned array.                               *)
(***************************************************************************)
InitInterp ==
    /\ pc = "start"
    /\ \E p \in UNION { [ 1 .. m -> ConvPoints ] : m \in 1 .. MaxLen } :
           traj = Frag(p, 1)
    /\ t0 = 0
    /\ new_traj = << >>
    /\ overlap_pairs = << >> /\ ntol = 0 /\ rtol = 0 /\ lag = 0
    /\ BatchIdle /\ PairIdle /\ StitchIdle /\ LpIdle /\ FillIdle

\* result = coordinates.copy() is the only array written: traj is left as it is
InterpolateNan ==
    /\ pc = "start"
    /\ LET r == interpolate_nan(ToFloatRows(traj.pos))
       IN  IF r.raised
           THEN pc' = "raised" /\ UNCHANGED new_traj
           ELSE pc' = "interpolated" /\ new_traj' = r.value
    /\ UNCHANGED << batchVars, overlap_pairs, ntol, rtol, pairVars, stitchVars,
                    traj, t0, fillVars, lpVars >>

NextInterp == InterpolateNan

SpecInterp == InitInterp /\ [][NextInterp]_vars

(***************************************************************************)
(* fill_hole_1d called on a boolean array with any size, then on its own   *)
(* output with the same size.                                              *)
(***************************************************************************)
MaxBits == 7       \* longest array handed to fill_hole_1d
MaxSize == 3       \* largest size handed to fill_hole_1d

\* the array of the docstring example
DocBinary ==
    [ k \in 1 .. 13 |-> k \in { 2, 3, 8, 11, 13 } ]

InitFill ==
    /\ pc = "start"
    /\ fill_input \in UNION { [ 1 .. n -> BOOLEAN ] : n \in 0 .. MaxBits }
                        \cup { DocBinary }
    /\ fill_size \in 0 .. MaxSize
    /\ fill_output = << >> /\ fill_again = << >>
    /\ traj = << >> /\ t0 = 0 /\ new_traj = << >>
    /\ overlap_pairs = << >> /\ ntol = 0 /\ rtol = 0 /\ lag = 0
    /\ BatchIdle /\ PairIdle /\ StitchIdle /\ LpIdle

FillHole1d ==
    /\ pc = "start"
    /\ fill_output' = fill_hole_1d(fill_input, fill_size)
    /\ pc' = "filled"
    /\ UNCHANGED << batchVars, overlap_pairs, ntol, rtol, pairVars, stitchVars,
                    traj, t0, new_traj, fill_input, fill_size, fill_again, lpVars >>

FillHole1dAgain ==
    /\ pc = "filled"
    /\ fill_again' = fill_hole_1d(fill_output, fill_size)
    /\ pc' = "refilled"
    /\ UNCHANGED << batchVars, overlap_pairs, ntol, rtol, pairVars, stitchVars,
                    traj, t0, new_traj, fill_input, fill_size, fill_output, lpVars >>

NextFill == FillHole1d \/ FillHole1dAgain

SpecFill == InitFill /\ [][NextFill]_vars

(***************************************************************************)
(* Properties of convert_traj_format.                                      *)
(***************************************************************************)
\* the returned pair is well formed: time strictly increasing, as long as
\* positions, made of t0 + offset, and no coordinate missing
WellFormed(tr, start, out) ==
    /\ Len(out[1]) = Len(out[2])
    /\ \A k \in 1 .. (Len(out[1]) - 1) : out[1][k] < out[1][k + 1]
    /\ \A k \in DOMAIN out[1] : out[1][k] - start \in 0 .. (Len(tr.pos) - 1)
    /\ \A k \in DOMAIN out[2] : \A d \in 1 .. 3 : out[2][k][d][2] # 0

\* C4: for every fragment and t0, convert_traj_format returns a well-formed
\* (time, positions) pair.
C4_ReturnsWellFormed ==
    pc # "start" => (pc = "converted" /\ WellFormed(traj, t0, new_traj))

\* the sentinel position (every coordinate NaN) and the wholly present position
Sentinel(p) == \A d \in 1 .. 3 : p[d] = NaN
Present(p) == \A d \in 1 .. 3 : p[d] # NaN

\* a .. b is a maximal run of missing offsets between two valid offsets
EnclosedRun(pos, a, b) ==
    /\ 1 < a /\ a <= b /\ b < Len(pos)
    /\ \A k \in a .. b : Sentinel(pos[k])
    /\ Present(pos[a - 1]) /\ Present(pos[b + 1])

Emitted(k) == \E m \in DOMAIN new_traj[1] : new_traj[1][m] = t0 + (k - 1)

\* the run a .. b is filled iff its length is below `bound`, absent otherwise
RunsFilledBelow(bound) ==
    \A a, b \in DOMAIN traj.pos :
        EnclosedRun(traj.pos, a, b) =>
            /\ (b - a + 1 < bound) => \A k \in a .. b : Emitted(k)
            /\ (b - a + 1 >= bound) => \A k \in a .. b : ~Emitted(k)

C7_WitnessJump ==
    /\ pc = "converted"
    /\ \E a \in DOMAIN traj.pos : a + 3 < Len(traj.pos)
          /\ EnclosedRun(traj.pos, a, a + 3) /\ ~Emitted(a)
(***************************************************************************)
(* resolve_temporal_overlap, one action per iteration of its loop, then    *)
(* the code after the loop, then convert_traj_format of every entry.       *)
(***************************************************************************)
\* the values of the other column
column_swapped(pairs, c) == { pairs[k][3 - c] : k \in DOMAIN pairs }

\* the values of one column of an (n, 2) array of pairs
Column(pairs, c) == { pairs[k][c] : k \in DOMAIN pairs }

concat_whole(e, f, lg) ==
    [ pos |-> e.pos \o f.pos, err |-> e.err + f.err, src |-> e.src \o f.src ]

\* a concatenation that keeps the error of the entry it extends
concat_keeps_error(e, f, lg) ==
    [ pos |-> SubSeq(e.pos, 1, Len(e.pos) - lg) \o f.pos,
      err |-> e.err,
      src |-> e.src \o f.src ]

\* (np.concatenate((e[0][:-lag], f[0]), axis=0), e[1] + f[1])
concat_extend(e, f, lg) ==
    [ pos |-> SubSeq(e.pos, 1, Len(e.pos) - lg) \o f.pos,
      err |-> e.err + f.err,
      src |-> e.src \o f.src ]

\* pairs left with the indices of the sub-list
no_remap(pairs, remap) == pairs

\* pairs_new[:, 1] = remap[pairs_new[:, 1]]: back to the indices of b1
remap_pairs(pairs, remap) ==
    [ k \in DOMAIN pairs |-> << pairs[k][1], remap[pairs[k][2]] >> ]

\* the tag given to entries that start in the previous batch b0 == batches[i]
tag_of_previous_batch(k, lg) == k * lg

\* the fragments the code after the loop appends, and their tag
flush_after_loop(batches, pairs, lg) ==
    LET b0 == batches[Len(batches) - 1]               \* trajectory_batches[-2]
        pne_indices == setdiff1d(Len(b0), Column(pairs, 2))
        pne_trajs == [ k \in DOMAIN pne_indices |-> b0[pne_indices[k]] ]
    IN  [ trajs |-> pne_trajs,
          tags |-> [ k \in DOMAIN pne_trajs |-> (Len(batches) - 1) * lg ] ]

SamplePt(p, n) == [ k \in 1 .. n |-> p ]

\* fragments of window 2 * lg
StitchFragA(lg) == Frag(SamplePt(PtA, 2 * lg), 1)
StitchFragA1(lg) == Frag(SamplePt(PtA1, 2 * lg), 2)
StitchFragB(lg) == Frag(SamplePt(PtB, 2 * lg), 1)
StitchFragAB(lg) == Frag(SamplePt(PtA, lg) \o SamplePt(PtB, lg), 3)
StitchFragNA(lg) == Frag(<< PtNaN >> \o SamplePt(PtA, 2 * lg - 1), 1)

StitchBatchPool(lg) ==
    { << >>, << StitchFragA(lg) >>, << StitchFragNA(lg) >>,
      << StitchFragA(lg), StitchFragB(lg) >>, << StitchFragA(lg), StitchFragA1(lg) >>,
      << StitchFragAB(lg), StitchFragB(lg) >> }

\* the (lag, ntol, rtol) handed to resolve_temporal_overlap
StitchParams == { << 3, 2, 1 >>, << 2, 2, 2 >>, << 3, 3, 2 >> }

\* label every input fragment with (batch number, index in the batch), 0-based batch
Labelled(batches) ==
    [ b \in DOMAIN batches |->
        [ k \in DOMAIN batches[b] |->
            [ batches[b][k] EXCEPT !.src = << << b - 1, k >> >> ] ] ]

InitStitch ==
    /\ pc = "loop"
    /\ \E par \in StitchParams : lag = par[1] /\ ntol = par[2] /\ rtol = par[3]
    /\ \E bs \in UNION { [ 1 .. n -> StitchBatchPool(lag) ] : n \in 2 .. MaxBatches } :
           trajectory_batches = Labelled(bs)
    /\ i = 0
    /\ extended = << >> /\ fragments = << >>
    /\ t0_extended = << >> /\ t0_fragments = << >>
    /\ previous_pairs = << >>
    /\ resolved = << >> /\ stitched = << >>
    /\ overlap_pairs = << >>
    /\ BatchIdle /\ PairIdle /\ ConvIdle /\ LpIdle

\* one iteration of `for i, b1 in enumerate(trajectory_batches[1:])`
StepPair ==
    /\ pc = "loop"
    /\ i + 2 <= Len(trajectory_batches)
    /\ LET b1 == trajectory_batches[i + 2]
           b0 == trajectory_batches[i + 1]
           pairs_extend ==
               get_temporal_overlapped_pairs(extended, b1, lag, ntol, rtol, "conn")
           ext_1 == IF Len(extended) > 0
                    THEN [ k \in DOMAIN pairs_extend |->
                             concat_extend(extended[pairs_extend[k][1]],
                                           b1[pairs_extend[k][2]], lag) ]
                    ELSE << >>
           ext_t0_1 == IF Len(extended) > 0
                       THEN [ k \in DOMAIN pairs_extend |->
                                t0_extended[pairs_extend[k][1]] ]
                       ELSE << >>
           ne_pe_indices == IF Len(extended) > 0
                            THEN setdiff1d(Len(extended), Column(pairs_extend, 1))
                            ELSE << >>
           pne_indices == setdiff1d(Len(b0), Column(previous_pairs, 2))
           pne_trajs == [ k \in DOMAIN pne_indices |-> b0[pne_indices[k]] ]
           indice_not_extended == setdiff1d(Len(b1), Column(pairs_extend, 2))
           b1_not_extended ==
               [ k \in DOMAIN indice_not_extended |-> b1[indice_not_extended[k]] ]
           pairs_raw == get_temporal_overlapped_pairs(
                            pne_trajs, b1_not_extended, lag, ntol, rtol, "conn")
           \* remap = np.arange(len(b1))[indice_not_extended]
           pairs_new == remap_pairs(pairs_raw, indice_not_extended)
           ext_2 == [ k \in DOMAIN pairs_new |->
                        concat_extend(pne_trajs[pairs_new[k][1]],
                                      b1[pairs_new[k][2]], lag) ]
           ext_t0_2 == [ k \in DOMAIN pairs_new |-> tag_of_previous_batch(i, lag) ]
           ne_ne_indices == setdiff1d(Len(pne_trajs), Column(pairs_new, 1))
       IN  /\ fragments' = fragments
                 \o [ k \in DOMAIN ne_pe_indices |-> extended[ne_pe_indices[k]] ]
                 \o [ k \in DOMAIN ne_ne_indices |-> pne_trajs[ne_ne_indices[k]] ]
           /\ t0_fragments' = t0_fragments
                 \o [ k \in DOMAIN ne_pe_indices |-> t0_extended[ne_pe_indices[k]] ]
                 \o [ k \in DOMAIN ne_ne_indices |-> tag_of_previous_batch(i, lag) ]
           /\ previous_pairs' = pairs_extend \o pairs_new
           /\ t0_extended' = ext_t0_1 \o ext_t0_2
           /\ extended' = ext_1 \o ext_2
    /\ i' = i + 1
    /\ UNCHANGED << pc, trajectory_batches, lag, ntol, rtol, resolved, stitched,
                    overlap_pairs, batchVars, pairVars, convVars, lpVars >>

\* the code after the loop ("For the last batch") and the return
Flush ==
    /\ pc = "loop"
    /\ i + 1 = Len(trajectory_batches)
    /\ LET fl == flush_after_loop(trajectory_batches, previous_pairs, lag)
       IN  /\ fragments' = fragments \o fl.trajs
           /\ t0_fragments' = t0_fragments \o fl.tags
           /\ resolved' = << extended \o fragments', t0_extended \o t0_fragments' >>
    /\ pc' = "done"
    /\ UNCHANGED << trajectory_batches, lag, i, ntol, rtol, extended, t0_extended,
                    previous_pairs, stitched, overlap_pairs,
                    batchVars, pairVars, convVars, lpVars >>

\* every returned entry goes through convert_traj_format with its start frame
Normalize ==
    /\ pc = "done"
    /\ LET out == [ k \in DOMAIN resolved[1] |->
                      convert_traj_format(resolved[1][k], resolved[2][k]) ]
       IN  IF \E k \in DOMAIN out : out[k].raised
           THEN pc' = "raised" /\ UNCHANGED stitched
           ELSE /\ pc' = "normalized"
                /\ stitched' = [ k \in DOMAIN out |-> << out[k].time, out[k].pos >> ]
    /\ UNCHANGED << trajectory_batches, lag, i, ntol, rtol, extended, fragments,
                    t0_extended, t0_fragments, previous_pairs, resolved,
                    overlap_pairs, batchVars, pairVars, convVars, lpVars >>

NextStitch == StepPair \/ Flush \/ Normalize

SpecStitch == InitStitch /\ [][NextStitch]_vars

(***************************************************************************)
(* resolve_temporal_overlap on one batch more than SpecStitch takes, drawn *)
(* from fewer batches, up to its return.                                   *)
(***************************************************************************)
LongBatchPool(lg) ==
    { << >>, << StitchFragA(lg) >>, << StitchFragA(lg), StitchFragB(lg) >> }

InitStitchLong ==
    /\ pc = "loop"
    /\ \E par \in StitchParams : lag = par[1] /\ ntol = par[2] /\ rtol = par[3]
    /\ \E bs \in [ 1 .. (MaxBatches + 1) -> LongBatchPool(lag) ] :
           trajectory_batches = Labelled(bs)
    /\ i = 0
    /\ extended = << >> /\ fragments = << >>
    /\ t0_extended = << >> /\ t0_fragments = << >>
    /\ previous_pairs = << >>
    /\ resolved = << >> /\ stitched = << >>
    /\ overlap_pairs = << >>
    /\ BatchIdle /\ PairIdle /\ ConvIdle /\ LpIdle

NextStitchLong == StepPair \/ Flush

SpecStitchLong == InitStitchLong /\ [][NextStitchLong]_vars
(***************************************************************************)
(* solve_overlap_lp and solve_overlap_lp_fast.                             *)
(*                                                                         *)
(* Points have one coordinate (shape (N, 1)), so the Euclidean distance    *)
(* pdist computes is the exact integer |x - y|.  The optimisation backend  *)
(* is exact: it reports success iff the constraints can be met and then    *)
(* returns one of the assignments of least total error; which one is its   *)
(* choice, so the functions are modelled by the set of results they can    *)
(* return, each the set of indices of the returned points.                 *)
(***************************************************************************)
pdist(pts, a, b) == Abs(pts[a][1] - pts[b][1])

\* the constraints of the model built for n_target, on the assignment x = 1 on S
cardinality_only(S, pts, diam, n_target) == Cardinality(S) = n_target

strict_separation(S, pts, diam, n_target) ==
    /\ Cardinality(S) = n_target
    /\ \A a, b \in S : a # b => (pdist(pts, a, b) - diam) * 1 * 1 > 0

lp_constraints(S, pts, diam, n_target) ==
    /\ Cardinality(S) = n_target                     \* model.sum(x_vars) == n_target
    /\ \A a, b \in S : a # b => (pdist(pts, a, b) - diam) * 1 * 1 >= 0

RECURSIVE SetSum(_, _)
SetSum(S, e) ==
    IF S = {} THEN 0
    ELSE LET a == CHOOSE x \in S : TRUE IN e[a] + SetSum(S \ {a}, e)

\* a backend that returns any assignment meeting the constraints
lp_feasible_only(idx, pts, errs, diam, n_target) ==
    { S \in SUBSET idx : lp_constraints(S, pts, diam, n_target) }

\* the assignments model.solve() can return for n_target; empty: no solution
lp_solve(idx, pts, errs, diam, n_target) ==
    LET feasible == { S \in SUBSET idx : lp_constraints(S, pts, diam, n_target) }
    IN  { S \in feasible : \A R \in feasible : SetSum(S, errs) <= SetSum(R, errs) }

\* the ladder with a fallback that retains the point of greatest error
ladder_keeps_worst(idx, pts, errs, diam, n_target) ==
    LET sizes == { n \in 2 .. n_target : lp_solve(idx, pts, errs, diam, n) # {} }
        worst == CHOOSE a \in idx : \A b \in idx : errs[a] >= errs[b]
    IN  IF sizes = {}
        THEN { [ idx |-> { worst }, outcome |-> "fallback" ] }
        ELSE LET n == CHOOSE x \in sizes : \A y \in sizes : x >= y
             IN  { [ idx |-> S, outcome |-> "solved" ] :
                     S \in lp_solve(idx, pts, errs, diam, n) }

\* for n_target in range(N, 1, -1): the first size with a solution, else argmin
RECURSIVE lp_ladder(_, _, _, _, _)
lp_ladder(idx, pts, errs, diam, n_target) ==
    IF n_target <= 1
    THEN LET least == CHOOSE a \in idx :
                 /\ \A b \in idx : errs[a] <= errs[b]
                 /\ \A b \in idx : b < a => errs[b] > errs[a]
         IN  { [ idx |-> { least }, outcome |-> "fallback" ] }
    ELSE LET sols == lp_solve(idx, pts, errs, diam, n_target)
         IN  IF sols # {}
             THEN { [ idx |-> S, outcome |-> "solved" ] : S \in sols }
             ELSE lp_ladder(idx, pts, errs, diam, n_target - 1)

\* solve_overlap_lp on the points with indices idx (all of them, or one clique)
solve_overlap_lp(idx, pts, errs, diam) ==
    IF \A a, b \in idx : a < b => pdist(pts, a, b) > diam   \* np.all(dists > diameter)
    THEN { [ idx |-> idx, outcome |-> "no_overlap" ] }
    ELSE IF Cardinality(idx) <= 1
    THEN { [ idx |-> idx, outcome |-> "no_overlap" ] }
    ELSE lp_ladder(idx, pts, errs, diam, Cardinality(idx))

\* connected_components(aij) with aij = squareform(dists) < diameter
RECURSIVE clique_of(_, _, _)
clique_of(S, pts, diam) ==
    LET next == S \cup { b \in DOMAIN pts :
                           \E a \in S : a # b /\ pdist(pts, a, b) < diam }
    IN  IF next = S THEN S ELSE clique_of(next, pts, diam)

cliques(pts, diam) == { clique_of({ a }, pts, diam) : a \in DOMAIN pts }

\* one result of solve_overlap_lp per clique of more than one point
RECURSIVE fast_results(_, _, _, _)
fast_results(cs, pts, errs, diam) ==
    IF cs = {} THEN { {} }
    ELSE LET c == CHOOSE x \in cs : TRUE
             rest == fast_results(cs \ { c }, pts, errs, diam)
             here == IF Cardinality(c) = 1 THEN { c }
                     ELSE { r.idx : r \in solve_overlap_lp(c, pts, errs, diam) }
         IN  { h \cup r : h \in here, r \in rest }

solve_overlap_lp_fast(pts, errs, diam) ==
    { [ idx |-> S, outcome |-> "fast" ] :
        S \in fast_results(cliques(pts, diam), pts, errs, diam) }

\* points[indices]
take(pts, S) ==
    LET order == SetToSortedSeq(S) IN [ k \in DOMAIN order |-> pts[order[k]] ]

LpCoords == 0 .. 3
LpErrors == { 1, 2 }
LpDiameters == { 1, 2 }

InitLp ==
    /\ pc = "start"
    /\ \E n \in 1 .. MaxPts :
          /\ points \in [ 1 .. n -> { << x >> : x \in LpCoords } ]
          /\ errors \in [ 1 .. n -> LpErrors ]
    /\ diameter \in LpDiameters
    /\ kept = << >> /\ outcome = "none"
    /\ overlap_pairs = << >> /\ ntol = 0 /\ rtol = 0 /\ lag = 0
    /\ BatchIdle /\ PairIdle /\ StitchIdle /\ ConvIdle

SolveOverlapLp ==
    /\ pc = "start"
    /\ \E r \in solve_overlap_lp(DOMAIN points, points, errors, diameter) :
          /\ kept' = take(points, r.idx)
          /\ outcome' = r.outcome
    /\ pc' = "lp_done"
    /\ UNCHANGED << points, errors, diameter, overlap_pairs, ntol, rtol,
                    batchVars, pairVars, stitchVars, convVars >>

SolveOverlapLpFast ==
    /\ pc = "start"
    /\ \E r \in solve_overlap_lp_fast(points, errors, diameter) :
          /\ kept' = take(points, r.idx)
          /\ outcome' = r.outcome
    /\ pc' = "lp_done"
    /\ UNCHANGED << points, errors, diameter, overlap_pairs, ntol, rtol,
                    batchVars, pairVars, stitchVars, convVars >>

NextLp == SolveOverlapLp \/ SolveOverlapLpFast

SpecLp == InitLp /\ [][NextLp]_vars

(***************************************************************************)
(* Properties of the overlap resolver.                                     *)
(***************************************************************************)
\* C2: no two points returned by solve_overlap_lp or solve_overlap_lp_fast are at
\* a distance below diameter.
C2_KeptPointsSeparated ==
    pc = "lp_done" =>
        \A a, b \in DOMAIN kept :
            a # b => ~(Abs(kept[a][1] - kept[b][1]) < diameter)

\* the optimisation succeeded at a size below N and returned several points
C2_Witness ==
    /\ pc = "lp_done"
    /\ outcome = "solved"
    /\ Len(kept) >= 2
    /\ Len(kept) < Len(points)
(***************************************************************************)
(* Properties of resolve_temporal_overlap.                                 *)
(***************************************************************************)
\* every batch holds one fragment of window 2 * lag, all samples at one present point
SingleStationaryBatches ==
    \E p \in { PtA, PtA1, PtB } :
        \A b \in DOMAIN trajectory_batches :
            /\ Len(trajectory_batches[b]) = 1
            /\ trajectory_batches[b][1].pos = SamplePt(p, 2 * lag)

\* C1: n >= 2 single-fragment batches at identical positions, window 2 * lag,
\* ntol <= lag: the result is one extended entry of (n + 1) * lag samples tagged 0
\* and no fragment entry; convert_traj_format turns it into one trajectory whose
\* time is 0 .. (n + 1) * lag - 1, each frame once  (n = 3, lag = 3: 0 .. 11).
C1_SingleChain ==
    (SingleStationaryBatches /\ ntol <= lag) =>
        LET n == Len(trajectory_batches)
        IN  /\ pc # "raised"
            /\ pc \in { "done", "normalized" } =>
                  /\ Len(extended) = 1
                  /\ Len(extended[1].pos) = (n + 1) * lag
                  /\ t0_extended = << 0 >>
                  /\ fragments = << >> /\ t0_fragments = << >>
                  /\ resolved = << extended, << 0 >> >>
            /\ pc = "normalized" =>
                  /\ Len(stitched) = 1
                  /\ stitched[1][1] = [ k \in 1 .. ((n + 1) * lag) |-> k - 1 ]
                  /\ Len(stitched[1][2]) = (n + 1) * lag

\* three batches of window 6 starting at frames 0, 3, 6, lag=3, ntol=2, rtol=1
C1_Witness ==
    /\ pc = "normalized"
    /\ SingleStationaryBatches
    /\ Len(trajectory_batches) = 3
    /\ lag = 3 /\ ntol = 2 /\ rtol = 1
    /\ Len(stitched) = 1
    /\ stitched[1][1] = << 0, 1, 2, 3, 4, 5, 6, 7, 8, 9, 10, 11 >>

\* the batch (0-based) the first samples of an entry come from
FirstBatch(e) == e.src[1][1]

\* C9: every returned entry is tagged with the start frame of the batch its first
\* samples come from, k * lag for batch k.
C9_TagIsStartFrame ==
    pc = "done" =>
        \A k \in DOMAIN resolved[1] :
            resolved[2][k] = FirstBatch(resolved[1][k]) * lag

\* the input fragments an entry is built from
Parts(e) == { e.src[k] : k \in DOMAIN e.src }

\* how many times an input fragment is part of an entry of a list
Uses(list, id) ==
    Cardinality({ km \in (DOMAIN list) \X (1 .. (MaxBatches + 1)) :
                    /\ km[2] \in DOMAIN list[km[1]].src
                    /\ list[km[1]].src[km[2]] = id })

\* C10: the code after the loop appends only fragments that are neither part of an
\* extended entry nor already in fragments, so no input fragment is in the output
\* more than once.
C10_FlushOnlyUnconsumed ==
    [][ (pc = "loop" /\ pc' = "done") =>
          /\ \A k \in (Len(fragments) + 1) .. Len(fragments') :
                \A e \in Range(extended) \cup Range(fragments) :
                    Parts(fragments'[k]) \cap Parts(e) = {}
          /\ \A b \in DOMAIN trajectory_batches :
                \A k \in DOMAIN trajectory_batches[b] :
                    Uses(resolved'[1], << b - 1, k >>) <= 1 ]_vars

(***************************************************************************)
(* convert_traj_format on degenerate and holed fragments.                  *)
(***************************************************************************)
AllMissing(pos) == \A k \in DOMAIN pos : Sentinel(pos[k])

\* C11: convert_traj_format of a fragment whose offsets are all missing returns
\* the empty trajectory (empty time, empty positions) and raises nothing.
C11_AllMissingReturnsEmpty ==
    (pc # "start" /\ AllMissing(traj.pos)) =>
        (pc = "converted" /\ new_traj = << << >>, << >> >>)

(***************************************************************************)
(* Properties of get_temporal_overlapped_pairs.                            *)
(***************************************************************************)
\* the fragments of the two batches have different window lengths
UnequalWindow(b1, b2) ==
    \E a \in DOMAIN b1, b \in DOMAIN b2 : Len(b1[a].pos) # Len(b2[b].pos)

\* C12: get_temporal_overlapped_pairs fails with an error when the fragments of
\* the two batches have unequal window lengths.
C12_UnequalWindowRaises ==
    (pc # "start" /\ UnequalWindow(batch_1, batch_2)) => pc = "raised"

(***************************************************************************)
(* Further properties of the overlap resolver.                             *)
(***************************************************************************)
\* no two of the points can be retained together: every model built for a
\* target size N, N-1, ..., 2 is infeasible
EveryPairOverlaps ==
    /\ Len(points) >= 2
    /\ \A a, b \in DOMAIN points : a # b => pdist(points, a, b) < diameter

LeastError(a) == \A b \in DOMAIN errors : errors[a] <= errors[b]

\* C13: when the backend finds no solution at any target size N .. 2,
\* solve_overlap_lp returns exactly one point, an input point of least error,
\* and raises nothing.
C13_FallbackKeepsLeastError ==
    (pc = "lp_done" /\ EveryPairOverlaps) =>
        /\ outcome \in { "fallback", "fast" }
        /\ Len(kept) = 1
        /\ \E a \in DOMAIN points : LeastError(a) /\ kept[1] = points[a]

\* three mutually overlapping points of different errors, the first not the best
C13_Witness ==
    /\ pc = "lp_done"
    /\ EveryPairOverlaps
    /\ outcome = "fallback"
    /\ Len(points) = 3
    /\ ~LeastError(1)
    /\ Len(kept) = 1


\* no pair of input points is closer than diameter
NoPairCloser ==
    \A a, b \in DOMAIN points : a # b => pdist(points, a, b) >= diameter

\* C14: solve_overlap_lp and solve_overlap_lp_fast return all N input points,
\* none dropped and none added, whenever no pair is closer than diameter.
C14_ReturnsAllWhenNoOverlap ==
    (pc = "lp_done" /\ NoPairCloser) => kept = points

\* three points, two of them exactly diameter apart, went through the optimisation
C14_Witness ==
    /\ pc = "lp_done"
    /\ NoPairCloser
    /\ Len(points) = 3
    /\ \E a, b \in DOMAIN points : a # b /\ pdist(points, a, b) = diameter
    /\ outcome = "solved"
    /\ kept = points


(***************************************************************************)
(* Further properties of get_temporal_overlapped_pairs.                    *)
(***************************************************************************)
\* the squared distance at offset k of the lag window shared by t1 and t2
WindowDist(t1, t2, k) == SqDist(t1.pos[Len(t1.pos) - lag + k], t2.pos[k])

\* every offset of the shared window is present in both fragments
WindowPresent(t1, t2) == \A k \in 1 .. lag : WindowDist(t1, t2, k) # NaN

RECURSIVE CumulativeUpTo(_, _, _)
CumulativeUpTo(t1, t2, k) ==
    IF k = 0 THEN 0 ELSE WindowDist(t1, t2, k) + CumulativeUpTo(t1, t2, k - 1)

\* the squared distances summed over all offsets of the lag window
Cumulative(t1, t2) == CumulativeUpTo(t1, t2, lag)

\* t1 and t2 are close at ntol offsets of the window or more
Candidate(t1, t2) ==
    Cardinality({ k \in 1 .. lag : Less(WindowDist(t1, t2, k), rtol * rtol) }) >= ntol

\* C15: with unique = 'dist', the match kept for a fragment has the least
\* cumulative squared distance over the lag window among the fragment's candidates.
C15_KeepsLeastCumulative ==
    (pc = "tpairs" /\ unique = "dist") =>
        \A k \in DOMAIN overlap_pairs :
            LET t1 == batch_1[overlap_pairs[k][1]]
                t2 == batch_2[overlap_pairs[k][2]]
            IN  WindowPresent(t1, t2) =>
                  /\ \A b \in DOMAIN batch_2 :
                        (Candidate(t1, batch_2[b]) /\ WindowPresent(t1, batch_2[b]))
                            => Cumulative(t1, t2) <= Cumulative(t1, batch_2[b])
                  /\ \A a \in DOMAIN batch_1 :
                        (Candidate(batch_1[a], t2) /\ WindowPresent(batch_1[a], t2))
                            => Cumulative(t1, t2) <= Cumulative(batch_1[a], t2)


\* the number of offsets of the lag window at which both fragments are present
\* and closer than r
CloseWindowOffsets(t1, t2, r) ==
    Cardinality({ k \in 1 .. lag :
        DistanceBelow(t1.pos[Len(t1.pos) - lag + k], t2.pos[k], r) })

\* C16: in get_overlap_pairs and get_temporal_overlapped_pairs (thresholds of at
\* least one offset) an offset at which either position is missing is never counted
\* as overlapping: every returned pair has num offsets with both positions present
\* and close, so a fragment with every position missing is in no pair; missing
\* positions cause no error.
C16_MissingNeverCounted ==
    /\ pc = "pairs" =>
          \A k \in DOMAIN overlap_pairs :
              LET f == trajectories[overlap_pairs[k][1]]
                  g == trajectories[overlap_pairs[k][2]]
              IN  /\ CloseOffsets(f, g, rtol) >= ntol
                  /\ ~AllMissing(f.pos) /\ ~AllMissing(g.pos)
    /\ pc = "tpairs" =>
          \A k \in DOMAIN overlap_pairs :
              LET f == batch_1[overlap_pairs[k][1]]
                  g == batch_2[overlap_pairs[k][2]]
              IN  /\ CloseWindowOffsets(f, g, rtol) >= ntol
                  /\ ~AllMissing(f.pos) /\ ~AllMissing(g.pos)
    /\ pc = "raised" => trajectories = << >>

\* a whole fragment, a fragment present at one offset and a fragment with every
\* position missing were compared: no pair of get_overlap_pairs at num = 2
C16_Witness ==
    /\ pc = "pairs"
    /\ ntol = 2
    /\ Len(trajectories) = 2
    /\ trajectories[1].pos = << PtA, PtA, PtA >>
    /\ trajectories[2].pos = << PtNaN, PtA, PtNaN >>
    /\ overlap_pairs = << >>

\* the same two fragments met in get_temporal_overlapped_pairs, and one with every
\* position missing: only the pair with one present common offset is returned
C16_WitnessTemporal ==
    /\ pc = "tpairs"
    /\ ntol = 1 /\ lag = 2
    /\ Len(batch_1) = 1 /\ Len(batch_2) = 2
    /\ batch_1[1].pos = << PtA, PtA, PtA >>
    /\ batch_2[1].pos = << PtNaN, PtA, PtNaN >>
    /\ AllMissing(batch_2[2].pos)
    /\ overlap_pairs = << << 1, 1 >> >>


(***************************************************************************)
(* Further properties of convert_traj_format.                              *)
(***************************************************************************)
\* the index in traj.pos of the offset emitted at place m of the output
OffsetAt(m) == new_traj[1][m] - t0 + 1

\* lo and hi are the nearest present offsets before and after k
NearestPresent(pos, lo, k, hi) ==
    /\ lo < k /\ k < hi
    /\ Present(pos[lo]) /\ Present(pos[hi])
    /\ \A j \in (lo + 1) .. (hi - 1) : ~Present(pos[j])

\* the rational v is the value at k of the line through (lo, a) and (hi, b)
OnLine(v, lo, a, k, hi, b) ==
    v[2] > 0 /\ v[1] * (hi - lo) = v[2] * (a * (hi - k) + b * (k - lo))

\* exactly the offsets of `gone` (0-based) are missing, the others are present
MissingExactly(pos, gone) ==
    \A k \in DOMAIN pos :
        IF (k - 1) \in gone THEN Sentinel(pos[k]) ELSE Present(pos[k])

\* C17: in the output of convert_traj_format an offset that was present keeps its
\* value, and an emitted offset that was missing holds, in each coordinate, the
\* value linearly interpolated between the nearest present offsets before and
\* after it; a 10-offset fragment with only offsets 4 and 5 missing yields 10
\* samples.
C17_LinearlyInterpolated ==
    pc = "converted" =>
        /\ \A m \in DOMAIN new_traj[1] :
              LET k == OffsetAt(m)
                  pos == traj.pos
              IN  IF Present(pos[k])
                  THEN \A d \in 1 .. 3 : new_traj[2][m][d] = << pos[k][d], 1 >>
                  ELSE \E lo, hi \in DOMAIN pos :
                          /\ NearestPresent(pos, lo, k, hi)
                          /\ \A d \in 1 .. 3 :
                                OnLine(new_traj[2][m][d], lo, pos[lo][d], k, hi, pos[hi][d])
        /\ (Len(traj.pos) = 10 /\ MissingExactly(traj.pos, { 4, 5 })) =>
              /\ Len(new_traj[1]) = 10
              /\ Len(new_traj[2]) = 10

\* ten offsets, 4 and 5 missing, PtP0 at offset 3 and PtP1 at offset 6: the output
\* has ten samples, with a third and two thirds of the way at offsets 4 and 5
C17_Witness ==
    /\ pc = "converted"
    /\ Len(traj.pos) = 10
    /\ MissingExactly(traj.pos, { 4, 5 })
    /\ traj.pos[4] = PtP0 /\ traj.pos[7] = PtP1
    /\ Len(new_traj[1]) = 10
    /\ new_traj[2][5] = << << 2, 1 >>, << 4, 1 >>, << -2, 1 >> >>
    /\ new_traj[2][6] = << << 4, 1 >>, << 8, 1 >>, << -4, 1 >> >>


PresentOffsets(pos) == { k \in DOMAIN pos : Present(pos[k]) }

\* C18: convert_traj_format emits no offset before the first present offset and
\* none after the last one, whatever the length of the leading or trailing run of
\* missing offsets: the output starts at t0 + the first present offset and ends at
\* t0 + the last one; a 10-offset fragment with only offsets 0 and 1 missing
\* yields the 8 offsets 2 .. 9.
C18_EndsTrimmed ==
    pc = "converted" =>
        LET ok == PresentOffsets(traj.pos)
            n == Len(new_traj[1])
        IN  /\ ok = {} => n = 0
            /\ ok # {} =>
                  /\ n > 0
                  /\ \A k \in ok : new_traj[1][1] - t0 <= k - 1
                  /\ \E k \in ok : new_traj[1][1] - t0 = k - 1
                  /\ \A k \in ok : new_traj[1][n] - t0 >= k - 1
                  /\ \E k \in ok : new_traj[1][n] - t0 = k - 1
            /\ (Len(traj.pos) = 10 /\ MissingExactly(traj.pos, { 0, 1 })) =>
                  new_traj[1] = [ m \in 1 .. 8 |-> t0 + m + 1 ]

\* ten offsets with only the two leading ones missing: eight samples from offset 2
C18_Witness ==
    /\ pc = "converted"
    /\ Len(traj.pos) = 10
    /\ MissingExactly(traj.pos, { 0, 1 })
    /\ Len(new_traj[1]) = 8
    /\ new_traj[1][1] = t0 + 2


(***************************************************************************)
(* Properties of fill_hole_1d.                                             *)
(***************************************************************************)
\* a .. b is a maximal run of zeros of b with a one on each side
EnclosedZeros(bits, a, b) ==
    /\ 1 < a /\ a <= b /\ b < Len(bits)
    /\ \A k \in a .. b : ~bits[k]
    /\ bits[a - 1] /\ bits[b + 1]

\* k lies in an enclosed run of zeros of length at most s
InShortHole(bits, k, s) ==
    \E a, b \in DOMAIN bits :
        EnclosedZeros(bits, a, b) /\ a <= k /\ k <= b /\ b - a + 1 <= s

C20_Idempotent == pc = "refilled" => fill_again = fill_output

\* an array with two holes was filled, then filled again without change
C20_Witness ==
    /\ pc = "refilled"
    /\ fill_size >= 1
    /\ fill_output # fill_input
    /\ \E a, b \in DOMAIN fill_input :
          /\ a + 1 < b
          /\ ~fill_input[a] /\ InShortHole(fill_input, a, fill_size)
          /\ ~fill_input[b] /\ InShortHole(fill_input, b, fill_size)
          /\ fill_input[a + 1]
    /\ fill_again = fill_output


(***************************************************************************)
(* Properties of interpolate_nan.                                          *)
(***************************************************************************)
NoMissingValue(pos) == \A k \in DOMAIN pos : Present(pos[k])

EqualEverywhere(f, g) == f.pos = g.pos /\ NoMissingValue(f.pos)

\* the trailing lag samples of f are present and equal to the leading lag samples of g
EqualOnLagWindow(f, g) ==
    \A k \in 1 .. lag :
        /\ Present(g.pos[k])
        /\ f.pos[Len(f.pos) - lag + k] = g.pos[k]

C22_WitnessTemporal ==
    /\ pc = "tpairs"
    /\ lag = 2 /\ ntol = 2 /\ unique = "dist"
    /\ Len(batch_1) = 1 /\ Len(batch_2) = 2
    /\ EqualOnLagWindow(batch_1[1], batch_2[1])
    /\ ~EqualOnLagWindow(batch_1[1], batch_2[2])
    /\ << 1, 1 >> \in Range(overlap_pairs)


(***************************************************************************)
(* Further properties of resolve_temporal_overlap.                         *)
(***************************************************************************)
\* the input fragment with label id = (batch, index), batch 0-based
InputFragment(id) == trajectory_batches[id[1] + 1][id[2]]

RECURSIVE ErrorSum(_)
ErrorSum(ids) ==
    IF ids = << >> THEN 0
    ELSE ErrorSum(SubSeq(ids, 1, Len(ids) - 1)) + InputFragment(ids[Len(ids)]).err

\* the positions obtained by concatenating the fragments ids in order, each time
\* dropping the trailing lag samples of what was built so far
RECURSIVE Chained(_)
Chained(ids) ==
    IF Len(ids) = 1 THEN InputFragment(ids[1]).pos
    ELSE LET before == Chained(SubSeq(ids, 1, Len(ids) - 1))
         IN  SubSeq(before, 1, Len(before) - lag) \o InputFragment(ids[Len(ids)]).pos

\* C23: after any number of steps the error of every extended entry is the sum of
\* the errors of the batch fragments concatenated into it, and its positions are
\* the previous entry without its trailing lag samples followed by all samples of
\* the newly matched fragment.
C23_ErrorAndPositionsAccumulate ==
    \A k \in DOMAIN extended :
        /\ Len(extended[k].src) >= 2
        /\ extended[k].err = ErrorSum(extended[k].src)
        /\ extended[k].pos = Chained(extended[k].src)

\* an entry built from three fragments that do not all have the same error
C23_Witness ==
    /\ pc = "loop"
    /\ i = 2
    /\ \E k \in DOMAIN extended :
          /\ Len(extended[k].src) = 3
          /\ \E a, b \in 1 .. 3 :
                InputFragment(extended[k].src[a]).err # InputFragment(extended[k].src[b]).err
          /\ Len(extended[k].pos) = 4 * lag


\* the fragments of batch b (1-based) that no pair of previous_pairs consumed
NotYetExtended(b) ==
    { trajectory_batches[b][k] :
        k \in { m \in DOMAIN trajectory_batches[b] :
                  \A p \in DOMAIN previous_pairs : previous_pairs[p][2] # m } }

\* C24: a step of resolve_temporal_overlap whose new batch has zero fragments
\* raises nothing and yields no overlap pair; it appends every extended entry and
\* every not-yet-extended fragment of the previous batch to fragments and leaves
\* the extended pool empty.
C24_EmptyBatchPassesThrough ==
    [][ (pc = "loop" /\ i' = i + 1 /\ trajectory_batches[i + 2] = << >>) =>
          /\ pc' = "loop"
          /\ previous_pairs' = << >>
          /\ extended' = << >> /\ t0_extended' = << >>
          /\ Len(fragments') =
                Len(fragments) + Len(extended) + Cardinality(NotYetExtended(i + 1))
          /\ SubSeq(fragments', 1, Len(fragments)) = fragments
          /\ Range(extended) \cup NotYetExtended(i + 1) \subseteq Range(fragments')
          /\ Len(t0_fragments') = Len(fragments') ]_vars

\* an empty third batch was processed: the entry extended over the first two
\* batches and the unmatched fragment of the second batch are now in fragments
C24_Witness ==
    /\ pc = "loop"
    /\ i = 2
    /\ Len(trajectory_batches) = 3
    /\ trajectory_batches[3] = << >>
    /\ Len(trajectory_batches[2]) = 2
    /\ extended = << >>
    /\ Len(fragments) = 2
    /\ Len(fragments[1].src) = 2
    /\ Len(fragments[2].src) = 1


(***************************************************************************)
(* Properties of the windows of get_trajectory_batches.                    *)
(***************************************************************************)
\* the frames of window k
WindowFrames(k) == t_starts[k] .. (t_starts[k] + tau - 1)

\* the windows have length tau, start at successive multiples of tau // 2, lie
\* inside the frames, and consecutive windows share `shared` frames
WindowsShare(shared) ==
    /\ \A k \in DOMAIN t_starts :
          /\ t_starts[k] = (k - 1) * (tau \div 2)
          /\ Cardinality(WindowFrames(k)) = tau
          /\ WindowFrames(k) \subseteq 0 .. (frame_num - 1)
    /\ \A k \in 1 .. (Len(t_starts) - 1) :
          Cardinality(WindowFrames(k) \cap WindowFrames(k + 1)) = shared

Separated(S) ==
    \A a, b \in S : a # b => Abs(points[a][1] - points[b][1]) >= diameter

RECURSIVE TotalError(_)
TotalError(S) ==
    IF S = {} THEN 0
    ELSE LET a == CHOOSE x \in S : TRUE IN errors[a] + TotalError(S \ { a })

\* C26: on an input with a pair closer than diameter solve_overlap_lp returns a
\* subset that respects the separation, has the largest cardinality of all such
\* subsets and the least total error among those of that cardinality.
C26_LargestThenLeastError ==
    (/\ pc = "lp_done"
     /\ outcome \in { "solved", "fallback" }
     /\ \E a, b \in DOMAIN points :
            a # b /\ Abs(points[a][1] - points[b][1]) < diameter) =>
        \E S \in SUBSET (DOMAIN points) :
            /\ kept = take(points, S)
            /\ Separated(S)
            /\ \A R \in SUBSET (DOMAIN points) :
                  Separated(R) =>
                      /\ Cardinality(R) <= Cardinality(S)
                      /\ Cardinality(R) = Cardinality(S) =>
                            TotalError(S) <= TotalError(R)

\* three points of which two can be kept, in two ways of different total error
C26_Witness ==
    /\ pc = "lp_done"
    /\ outcome = "solved"
    /\ Len(points) = 3
    /\ Len(kept) = 2
    /\ \E S, R \in SUBSET (DOMAIN points) :
          /\ Cardinality(S) = 2 /\ Cardinality(R) = 2
          /\ Separated(S) /\ Separated(R)
          /\ TotalError(S) < TotalError(R)


\* s is a proper prefix of t
ProperPrefix(s, t) == Len(s) < Len(t) /\ SubSeq(t, 1, Len(s)) = s

\* the entry e was extended in the step: an entry of extended' continues it
Continued(e) == \E k \in DOMAIN extended' : ProperPrefix(e.src, extended'[k].src)

\* C27: in a step of resolve_temporal_overlap an extended entry that finds no
\* match in the new batch is appended to fragments with its start-frame tag;
\* the entries of fragments and their tags are never removed or modified, and no
\* entry of fragments is matched or extended in a later step.
C27_FragmentsAreTerminal ==
    [][ pc = "loop" =>
          /\ Len(fragments') >= Len(fragments)
          /\ SubSeq(fragments', 1, Len(fragments)) = fragments
          /\ SubSeq(t0_fragments', 1, Len(fragments)) = t0_fragments
          /\ \A m \in DOMAIN fragments : ~Continued(fragments[m])
          /\ i' = i + 1 =>
                \A k \in DOMAIN extended :
                    ~Continued(extended[k]) =>
                        \E m \in (Len(fragments) + 1) .. Len(fragments') :
                            /\ fragments'[m] = extended[k]
                            /\ t0_fragments'[m] = t0_extended[k] ]_vars

\* an entry extended over two batches found no match in the third batch and sits
\* in fragments with tag 0 while a fourth batch extended another entry
C27_Witness ==
    /\ pc = "loop"
    /\ i = 3
    /\ \E m \in DOMAIN fragments :
          /\ fragments[m].src = << << 0, 2 >>, << 1, 2 >> >>
          /\ t0_fragments[m] = 0
    /\ \E k \in DOMAIN extended : Len(extended[k].src) = 4


\* the entry was started in the latest step from a fragment of the previous batch
NewExtension(e) == Len(e.src) = 2

\* C28: a new-batch fragment concatenated onto a previous-batch fragment in a step
\* was consumed by no extended entry in that step, and it is the fragment of the
\* new batch that overlaps the previous-batch fragment on the lag window, so the
\* indices were mapped back to the new batch.
C28_NewExtensionsUseUnconsumed ==
    \A k \in DOMAIN extended :
        NewExtension(extended[k]) =>
            LET old == InputFragment(extended[k].src[1])
                new == InputFragment(extended[k].src[2])
            IN  /\ extended[k].src[1][1] = i - 1
                /\ extended[k].src[2][1] = i
                /\ CloseWindowOffsets(old, new, rtol) >= ntol
                /\ \A m \in DOMAIN extended :
                      ~NewExtension(extended[m]) =>
                          extended[m].src[Len(extended[m].src)] # extended[k].src[2]

\* the first fragment of the third batch went onto the extended entry and the
\* second one, index 0 of the unconsumed rest, onto a fragment of the second batch
C28_Witness ==
    /\ pc = "loop"
    /\ i = 2
    /\ Len(extended) = 2
    /\ extended[1].src = << << 0, 1 >>, << 1, 1 >>, << 2, 1 >> >>
    /\ extended[2].src = << << 1, 2 >>, << 2, 2 >> >>

(***************************************************************************)
(* post_process_ctraj: the z filter, the removal of spatial overlap and    *)
(* the conversion of every fragment that is kept.                          *)
(***************************************************************************)
\* lines 819-841; value is the returned list of (time, positions) pairs
post_process_ctraj(trajs_3d, start, lo, hi, num, tol) ==
    LET trajs_3d_filtered == get_valid_ctraj(trajs_3d, lo, hi)
        op == get_overlap_pairs(trajs_3d_filtered, num, tol)
        jop == join_pairs(op)
        not_unique == UNION { Range(jop[g]) : g \in DOMAIN jop }
        \* for i, traj in enumerate(trajs_3d_filtered): if i not in not_unique
        alone == SelectSeq([ k \in DOMAIN trajs_3d_filtered |-> k ],
                           LAMBDA k : k \notin not_unique)
        best_idx(p) == argmin([ k \in DOMAIN p |-> trajs_3d_filtered[p[k]].err ])
        kept_trajs == IF Len(jop) = 0 THEN trajs_3d_filtered
                      ELSE [ k \in DOMAIN alone |-> trajs_3d_filtered[alone[k]] ]
                           \o [ g \in DOMAIN jop |->
                                  trajs_3d_filtered[jop[g][best_idx(jop[g])]] ]
        trajs_3d_opt == [ k \in DOMAIN kept_trajs |->
                            convert_traj_format(kept_trajs[k], start) ]
    IN  IF Len(trajs_3d_filtered) = 0
        THEN [ raised |-> FALSE, value |-> << >> ]
        ELSE IF \E k \in DOMAIN trajs_3d_opt : trajs_3d_opt[k].raised
        THEN [ raised |-> TRUE, value |-> << >> ]
        ELSE [ raised |-> FALSE,
               value |-> [ k \in DOMAIN trajs_3d_opt |->
                             << trajs_3d_opt[k].time, trajs_3d_opt[k].pos >> ] ]

\* post_process_ctraj(trajectories, t0, z_min, z_max, ntol, rtol)
PostProcessCtraj ==
    /\ pc = "start"
    /\ LET r == post_process_ctraj(trajectories, t0, z_min, z_max, ntol, rtol)
       IN  IF r.raised
           THEN pc' = "raised" /\ UNCHANGED stitched
           ELSE pc' = "refined" /\ stitched' = r.value
    /\ UNCHANGED << batchVars, overlap_pairs, ntol, rtol, pairVars,
                    trajectory_batches, lag, i, extended, fragments, t0_extended,
                    t0_fragments, previous_pairs, resolved, convVars, lpVars >>

\* remove_spatial_overlap called on the list directly
RemoveOverlapOfList == pc = "start" /\ RemoveSpatialOverlap

\* the fragments of ListFragPool and one that overlaps two of them with their error
RefineFragPool == ListFragPool \cup { Frag(<< PtA1, PtA1, PtA1 >>, 2) }

InitRefine ==
    /\ pc = "start"
    /\ trajectories \in ListsUpTo(RefineFragPool, MaxN)
    /\ ctrajs_3d = trajectories
    /\ \E zr \in ZRanges : z_min = zr[1] /\ z_max = zr[2]
    /\ ntol \in NTolSet
    /\ rtol \in RTolSet
    /\ overlap_pairs = << >>
    /\ lag = 0
    /\ WinIdle /\ PairIdle /\ StitchIdle /\ ConvIdle /\ LpIdle

NextRefine == RemoveOverlapOfList \/ PostProcessCtraj

SpecRefine == InitRefine /\ [][NextRefine]_vars

\* fragments a and b of F are an overlap pair
Linked(F, a, b) == a # b /\ CloseOffsets(F[a], F[b], rtol) >= ntol

\* the fragments of F that are in no overlap pair
Unpaired(F) == { a \in DOMAIN F : \A b \in DOMAIN F : ~Linked(F, a, b) }

\* the fragments joined to those of S by a chain of overlap pairs
RECURSIVE Joined(_, _)
Joined(F, S) ==
    LET next == S \cup { b \in DOMAIN F : \E a \in S : Linked(F, a, b) }
    IN  IF next = S THEN S ELSE Joined(F, next)

Groups(F) == { Joined(F, {a}) : a \in (DOMAIN F) \ Unpaired(F) }

\* the fragment of group g with the least error, the first one on a tie
LeastFirst(F, g) ==
    CHOOSE a \in g :
        \A b \in g : F[a].err < F[b].err \/ (F[a].err = F[b].err /\ a <= b)

\* out holds, in the form Shape gives a fragment, every unpaired fragment of F
\* and the least-error fragment of every group of F, each once, and nothing else
OnePerGroup(F, out, Shape(_)) ==
    /\ Len(out) = Cardinality(Unpaired(F)) + Cardinality(Groups(F))
    /\ \A v \in { Shape(F[a]) : a \in DOMAIN F } \cup Range(out) :
          Cardinality({ k \in DOMAIN out : out[k] = v })
            = Cardinality({ a \in Unpaired(F) : Shape(F[a]) = v })
              + Cardinality({ g \in Groups(F) : Shape(F[LeastFirst(F, g)]) = v })

AsGiven(f) == f

AsConverted(f) ==
    LET c == convert_traj_format(f, t0) IN << c.time, c.pos >>

\* C29: remove_spatial_overlap, of the fragments with more than one present
\* position, and post_process_ctraj, of the fragments its z filter lets through,
\* return every fragment that is in no overlap pair and, of every group joined by
\* overlap pairs, the one fragment of least error (the first on a tie); they
\* return as many fragments as there are unpaired fragments and groups.
C29_OnePerGroup ==
    /\ pc = "resolved" =>
          OnePerGroup(SelectSeq(trajectories, LAMBDA t : not_nan_count(t) > 1),
                      ctrajs_3d, AsGiven)
    /\ pc = "refined" =>
          OnePerGroup(get_valid_ctraj(trajectories, z_min, z_max),
                      stitched, AsConverted)

\* remove_spatial_overlap: the first two fragments differ, overlap and have the
\* same error, the third overlaps neither; the third and the first are returned
C29_Witness ==
    /\ pc = "resolved"
    /\ Len(trajectories) = 3
    /\ trajectories[1] # trajectories[2]
    /\ trajectories[1].err = trajectories[2].err
    /\ Linked(trajectories, 1, 2)
    /\ 3 \in Unpaired(trajectories)
    /\ ctrajs_3d = << trajectories[3], trajectories[1] >>

\* post_process_ctraj: the same on a list the z filter leaves whole
C29_WitnessRefined ==
    /\ pc = "refined"
    /\ Len(trajectories) = 3
    /\ get_valid_ctraj(trajectories, z_min, z_max) = trajectories
    /\ trajectories[1] # trajectories[2]
    /\ trajectories[1].err = trajectories[2].err
    /\ Linked(trajectories, 1, 2)
    /\ 3 \in Unpaired(trajectories)
    /\ stitched = << AsConverted(trajectories[3]), AsConverted(trajectories[1]) >>

\* C30: when resolve_temporal_overlap returns, every fragment of every input batch
\* is part of a returned entry, the fragments of the last batch that matched nothing
\* included.
C30_EveryFragmentReturned ==
    pc = "done" =>
        \A b \in DOMAIN trajectory_batches :
            \A k \in DOMAIN trajectory_batches[b] :
                \E e \in Range(resolved[1]) : << b - 1, k >> \in Parts(e)
====
